---- MODULE Spec2Model ----
(***************************************************************************)
(* Model of the playback orchestration of live-stream-tester.              *)
(*                                                                         *)
(*   StreamTester  (src/unnamed/part_000): the signals selectedFormat,     *)
(*     inputUrl, isTestActive, status, results, backupUrlIndex, the        *)
(*     debounce timers, the fallback in handleStatusChange and the sweep   *)
(*     handleTestAll.                                                      *)
(*   VideoPlayer   (src/src/components/VideoPlayer.tsx, and its other      *)
(*     revision src/unnamed/part_002): the engine handles of one           *)
(*     component instance, initializePlayer, destroyPlayers, the           *)
(*     createEffect that re-initializes after 50 ms and onCleanup.         *)
(*                                                                         *)
(* Solid's reactivity is modelled by React: after a handler (or a batch)   *)
(* has written the signals, <Show when={isTestActive()}> mounts or         *)
(* disposes the VideoPlayer and the player's createEffect re-runs when     *)
(* props.url / props.format changed.                                       *)
(*                                                                         *)
(* Timers are kept in registration order.  A timer may fire only when no   *)
(* timer registered before it has a delay that is shorter or equal (that   *)
(* one must fire first); the order is otherwise free.                      *)
(*                                                                         *)
(* Two specifications share the actions.  Spec is the tester used by hand  *)
(* (every control but "Test All Formats"); SpecSweep is the sweep, with    *)
(* format cards clicked around it.  Both start from the tester at rest     *)
(* with some format and some source of the catalog selected.               *)
(* SpecTester is the sweep of the first revision of the tester             *)
(* (StreamTester.tsx: four formats, no batch, no debounce); SpecRuntime    *)
(* is one HLS or DASH test in a browser of any capabilities (the other     *)
(* specifications run in a desktop browser with Media Source Extensions).  *)
(***************************************************************************)
EXTENDS Integers, Sequences, FiniteSets, TLC

\* ---------------------------------------------------------------- bounds
MaxClicks == 2
MaxPlayers == 3
MaxTests == 12
MaxSweeps == 1
MaxEvents == 1
MaxMessages == 3

\* ------------------------------------------------------- program constants
MaxResults == 10
InitDelay == 50
ResetDelay == 50
DebounceDelay == 100
StartDelay == 150
PollDelay == 500
SettleDelay == 1000
SweepTimeout == 10000

\* formatOptions, in declared order
formatOptions == <<"hls", "dash", "webrtc", "mp4", "rtmp", "rtsp", "srt", "flv", "smooth">>

VideoFormat == {formatOptions[i] : i \in 1..Len(formatOptions)}

\* SAMPLE_STREAMS: the primary URL of each format (URLs are named, not spelled)
SAMPLE_STREAMS ==
  [hls |-> "hls:primary", dash |-> "dash:primary", webrtc |-> "webrtc:primary",
   mp4 |-> "mp4:primary", rtmp |-> "rtmp:primary", rtsp |-> "rtsp:primary",
   srt |-> "srt:primary", flv |-> "flv:primary", smooth |-> "smooth:primary"]

\* SAMPLE_STREAMS[<format>Backup]
SAMPLE_BACKUPS ==
  [hls |-> <<"hls:backup1", "hls:backup2", "hls:backup3">>,
   dash |-> <<"dash:backup1", "dash:backup2", "dash:backup3">>,
   webrtc |-> <<"webrtc:janus", "webrtc:millicast", "webrtc:echotest">>,
   mp4 |-> <<"mp4:backup1", "mp4:backup2">>,
   rtmp |-> <<"rtmp:backup1", "rtmp:backup2">>,
   rtsp |-> <<"rtsp:backup1", "rtsp:backup2">>,
   srt |-> <<"srt:backup1", "srt:backup2">>,
   flv |-> <<"flv:backup1", "flv:backup2", "flv:backup3">>,
   smooth |-> <<"smooth:backup1", "smooth:backup2">>]

\* what a user can type into the URL field: nothing, or some other URL
UserUrls == {"", "https://custom"}

\* the two revisions of the player component
Builds == {"VideoPlayer.tsx", "part_002"}

\* the two revisions of the tester component
Testers == {"part_000", "StreamTester.tsx"}

Statuses == {"loading", "success", "error"}

\* what the browser offers: Media Source Extensions (Hls.isSupported()),
\* native playback of the manifest type (videoRef.canPlayType(...)), and
\* whether navigator.userAgent names UC Browser
Runtimes == [mse : BOOLEAN, canPlayType : BOOLEAN, ucBrowser : BOOLEAN]

\* a desktop browser with Media Source Extensions and no native HLS
Desktop == [mse |-> TRUE, canPlayType |-> FALSE, ucBrowser |-> FALSE]

\* ------------------------------------------------------------- pure helpers
getCurrentUrl(format, backupIndex) ==
  IF backupIndex = -1
  THEN SAMPLE_STREAMS[format]
  ELSE IF backupIndex >= Len(SAMPLE_BACKUPS[format])
       THEN SAMPLE_STREAMS[format]
       ELSE SAMPLE_BACKUPS[format][backupIndex + 1]

getBackupCount(format) == Len(SAMPLE_BACKUPS[format])

\* url.includes("janus") / url.includes("echotest") in initWebRTC
Dialect(url) ==
  IF url = "webrtc:janus" THEN "janus"
  ELSE IF url = "webrtc:echotest" THEN "echotest"
  ELSE "generic"

\* url.startsWith("rtmp://")
StartsWithRtmp(url) == url \in {"rtmp:primary", "rtmp:backup1", "rtmp:backup2"}

RemoveAt(q, i) == SubSeq(q, 1, i - 1) \o SubSeq(q, i + 1, Len(q))

Timer(kind, delay, who, fmt, url, flag) ==
  [kind |-> kind, delay |-> delay, who |-> who, fmt |-> fmt, url |-> url, flag |-> flag]

\* clearTimeout / clearInterval of the timers of one kind and owner
ClearTimers(q, kind, who) ==
  SelectSeq(q, LAMBDA t : ~(t.kind = kind /\ t.who = who))

\* ------------------------------------------------------------------- state
VARIABLES
  build,            \* which revision of VideoPlayer is bundled
  tester,           \* which revision of StreamTester is bundled
  runtime,          \* the capabilities of the browser
  selectedFormat, inputUrl, isTestActive, status, results, backupUrlIndex,
  timers,           \* pending timers in registration order
  players,          \* every VideoPlayer instance created so far
  sweeps,           \* every handleTestAll loop started so far
  leakedPolls,      \* some 500 ms interval is still scheduled after its wait ended
  nextId,           \* Date.now() of the next result record
  clicks,           \* user actions so far
  events,           \* engine status reports so far
  ev                \* the last step taken, and the format and index it started from

vars == <<build, tester, runtime, selectedFormat, inputUrl, isTestActive, status, results,
          backupUrlIndex, timers, players, sweeps, leakedPolls, nextId, clicks, events, ev>>

\* the state as one record, so that handlers compose as functions
S ==
  [build |-> build, tester |-> tester, runtime |-> runtime,
   selectedFormat |-> selectedFormat, inputUrl |-> inputUrl,
   isTestActive |-> isTestActive, status |-> status, results |-> results,
   backupUrlIndex |-> backupUrlIndex, timers |-> timers, players |-> players,
   sweeps |-> sweeps, leakedPolls |-> leakedPolls, nextId |-> nextId]

Within(n) ==
  /\ Len(n.players) <= MaxPlayers
  /\ n.nextId <= MaxTests + 1
  /\ Len(n.sweeps) <= MaxSweeps

Set(n, e) ==
  /\ Within(n)
  /\ build' = n.build
  /\ tester' = n.tester
  /\ runtime' = n.runtime
  /\ selectedFormat' = n.selectedFormat
  /\ inputUrl' = n.inputUrl
  /\ isTestActive' = n.isTestActive
  /\ status' = n.status
  /\ results' = n.results
  /\ backupUrlIndex' = n.backupUrlIndex
  /\ timers' = n.timers
  /\ players' = n.players
  /\ sweeps' = n.sweeps
  /\ leakedPolls' = n.leakedPolls
  /\ nextId' = n.nextId
  /\ ev' = e

Ev(kind, who, st, stale) ==
  [kind |-> kind, who |-> who, st |-> st, stale |-> stale,
   fmt |-> selectedFormat, idx |-> backupUrlIndex]

\* the mounted VideoPlayer, 0 when <Show when={isTestActive()}> shows nothing
Mounted(pls) ==
  IF \E p \in 1..Len(pls) : pls[p].life = "mounted"
  THEN CHOOSE p \in 1..Len(pls) : pls[p].life = "mounted"
  ELSE 0

\* --------------------------------------------------------------- VideoPlayer
\* the signaling session of a player: the WebSocket, what was sent on it, the
\* closure variables sessionId and handleId, the message handlers suspended at
\* an await, the last message received, the number of server events so far,
\* and of the peer connection: whether the local and the remote description
\* are set, and the ICE connection state
NoSignaling ==
  [chan |-> "none", sent |-> << >>, sessionId |-> 0, handleId |-> 0,
   running |-> << >>, last |-> [type |-> "", field |-> FALSE], handled |-> 0,
   local |-> FALSE, remote |-> FALSE, ice |-> "new"]

NewPlayer ==
  [life |-> "mounted", status |-> "loading", handles |-> {}, dialect |-> "none",
   src |-> FALSE, native |-> FALSE, closing |-> 0, leaked |-> 0, tempHls |-> 0,
   intervals |-> 0, destroyed |-> {}, twice |-> {}, sig |-> NoSignaling]

\* destroyPlayers: every tracked handle is released and set to null; the
\* socket that was closed delivers its close event later. No interval is
\* cleared: the onCleanup calls next to setInterval run without an owner.
\* "twice" collects the handles released here that were released before.
destroyPlayers(pl) ==
  [pl EXCEPT !.handles = {},
             !.twice = @ \cup (pl.handles \cap pl.destroyed),
             !.destroyed = {},
             !.sig = NoSignaling,
             !.closing = IF "ws" \in pl.handles THEN @ + 1 ELSE @,
             !.dialect = "none",
             !.src = FALSE]

\* createEffect of VideoPlayer: destroyPlayers, then initializePlayer in 50 ms
effectRun(s, p) ==
  IF s.inputUrl # ""
  THEN [s EXCEPT !.players[p] = destroyPlayers(@),
                 !.timers = Append(@, Timer("init", InitDelay, p, "", "", FALSE))]
  ELSE s

\* onCleanup of VideoPlayer (the 50 ms timers are not cleared)
onCleanup(s, p, why) ==
  [s EXCEPT !.players[p] = [destroyPlayers(@) EXCEPT !.life = why]]

\* what the view does after the signals went from old to new
ReactWhy(old, new, why) ==
  LET p == Mounted(new.players) IN
  IF old.isTestActive /\ ~new.isTestActive
  THEN IF p = 0 THEN new ELSE onCleanup(new, p, why)
  ELSE IF ~old.isTestActive /\ new.isTestActive
  THEN LET m == [new EXCEPT !.players = Append(@, NewPlayer)]
       IN effectRun(m, Len(m.players))
  ELSE IF new.isTestActive /\ p # 0
          /\ (old.inputUrl # new.inputUrl \/ old.selectedFormat # new.selectedFormat)
  THEN effectRun(new, p)
  ELSE new

React(old, new) == ReactWhy(old, new, "discarded")

\* ------------------------------------------------------------- StreamTester
startBatch_NoSlice(s) ==
  [s EXCEPT !.isTestActive = TRUE,
            !.status = "loading",
            !.results = <<[id |-> s.nextId, format |-> s.selectedFormat,
                           url |-> s.inputUrl, status |-> "loading"]>> \o @,
            !.nextId = @ + 1]

\* the body of handleStartTest's batch
startBatch(s) ==
  [s EXCEPT !.isTestActive = TRUE,
            !.status = "loading",
            !.results = SubSeq(<<[id |-> s.nextId, format |-> s.selectedFormat,
                                  url |-> s.inputUrl, status |-> "loading"]>> \o @,
                               1, IF Len(@) + 1 > MaxResults THEN MaxResults ELSE Len(@) + 1),
            !.nextId = @ + 1]

handleStartTest(s) ==
  IF s.inputUrl = "" THEN s ELSE React(s, startBatch(s))

handleStatusChange_EveryError(s, newStatus) ==
  LET s1 == [s EXCEPT !.status = newStatus,
                      !.results = IF Len(@) > 0
                                  THEN [@ EXCEPT ![1].status = newStatus]
                                  ELSE @]
      format == s1.selectedFormat
  IN IF s1.tester = "part_000"
        /\ newStatus = "error" /\ ~s1.isTestActive /\ getBackupCount(format) > 0
     THEN handleStartTest(
            React(s1, [s1 EXCEPT !.backupUrlIndex = 0,
                                 !.inputUrl = getCurrentUrl(format, 0)]))
     ELSE s1

handleStatusChange(s, newStatus) ==
  LET s1 == [s EXCEPT !.status = newStatus,
                      !.results = IF Len(@) > 0
                                  THEN [@ EXCEPT ![1].status = newStatus]
                                  ELSE @]
      format == s1.selectedFormat
  IN IF s1.tester = "part_000"
        /\ newStatus = "error" /\ ~s1.isTestActive
        /\ getBackupCount(format) > 0 /\ s1.backupUrlIndex = -1
     THEN handleStartTest(
            React(s1, [s1 EXCEPT !.backupUrlIndex = 0,
                                 !.inputUrl = getCurrentUrl(format, 0)]))
     ELSE s1

handleStopTest(s) == ReactWhy(s, [s EXCEPT !.isTestActive = FALSE], "stopped")

resetBackupIndex(s) == [s EXCEPT !.backupUrlIndex = -1]

\* debouncedFormatChange up to (not including) the end of the enclosing batch
debouncedFormatChange(s, format) ==
  [s EXCEPT !.timers = Append(ClearTimers(@, "formatChange", 0),
                              Timer("formatChange", DebounceDelay, 0, format, "", FALSE)),
            !.isTestActive = FALSE]

formatChangeTimeout_KeepIndex(s, format) ==
  React(s, [s EXCEPT !.selectedFormat = format, !.inputUrl = SAMPLE_STREAMS[format]])

\* the callback of formatChangeTimer
formatChangeTimeout(s, format) ==
  React(s, [resetBackupIndex(s) EXCEPT !.selectedFormat = format,
                                       !.inputUrl = SAMPLE_STREAMS[format]])

debouncedUrlChange(s, url, resetBackup) ==
  [s EXCEPT !.timers = Append(ClearTimers(@, "urlChange", 0),
                              Timer("urlChange", DebounceDelay, 0, "", url, resetBackup)),
            !.isTestActive = FALSE]

\* the callback of urlChangeTimer
urlChangeTimeout(s, url, resetBackup) ==
  React(s, [(IF resetBackup THEN resetBackupIndex(s) ELSE s) EXCEPT !.inputUrl = url])

handleUrlChange(s, value) == React(s, debouncedUrlChange(s, value, TRUE))

\* onClick of the "Primary URL" button
primaryUrlClick(s) ==
  LET s1 == resetBackupIndex(s)
  IN React(s1, debouncedUrlChange(s1, SAMPLE_STREAMS[s1.selectedFormat], FALSE))

backupUrlClick_NoWrap(s) ==
  LET currentFormat == s.selectedFormat
      backupCount == getBackupCount(currentFormat)
      nextIndex == s.backupUrlIndex + 1
      s1 == [s EXCEPT !.backupUrlIndex = nextIndex]
  IN IF backupCount > 0
     THEN React(s1, debouncedUrlChange(s1, getCurrentUrl(currentFormat, nextIndex), FALSE))
     ELSE s

\* onClick of the "Backup URL" button
backupUrlClick(s) ==
  LET currentFormat == s.selectedFormat
      backupCount == getBackupCount(currentFormat)
      nextIndex == (s.backupUrlIndex + 1) % backupCount
      s1 == [s EXCEPT !.backupUrlIndex = nextIndex]
  IN IF backupCount > 0
     THEN React(s1, debouncedUrlChange(s1, getCurrentUrl(currentFormat, nextIndex), FALSE))
     ELSE s

\* onClick of "Try Primary Source": one batch
tryPrimaryClick(s) ==
  LET s1 == debouncedUrlChange(resetBackupIndex(s), SAMPLE_STREAMS[s.selectedFormat], FALSE)
      s2 == IF s1.inputUrl = "" THEN s1 ELSE startBatch(s1)
  IN React(s, s2)

tryNextClick_NoWrap(s) ==
  LET format == s.selectedFormat
      backupCount == getBackupCount(format)
      nextIndex == s.backupUrlIndex + 1
      s1 == debouncedUrlChange([s EXCEPT !.backupUrlIndex = nextIndex],
                               getCurrentUrl(format, nextIndex), FALSE)
      s2 == [s1 EXCEPT !.timers = Append(@, Timer("start", StartDelay, 0, "", "", FALSE))]
  IN IF backupCount > 0 THEN React(s, s2) ELSE s

\* onClick of "Try Next Backup Source": one batch, handleStartTest 150 ms later
tryNextClick(s) ==
  LET format == s.selectedFormat
      backupCount == getBackupCount(format)
      nextIndex == (s.backupUrlIndex + 1) % backupCount
      s1 == debouncedUrlChange([s EXCEPT !.backupUrlIndex = nextIndex],
                               getCurrentUrl(format, nextIndex), FALSE)
      s2 == [s1 EXCEPT !.timers = Append(@, Timer("start", StartDelay, 0, "", "", FALSE))]
  IN IF backupCount > 0 THEN React(s, s2) ELSE s

\* resetPlayStatus: stop the test, clean up 50 ms later
resetPlayStatus(s) ==
  LET s1 == React(s, [s EXCEPT !.isTestActive = FALSE])
  IN [s1 EXCEPT !.timers = Append(@, Timer("reset", ResetDelay, 0, "", "", FALSE))]

\* the callback of the timer of resetPlayStatus
resetTimeout(s) ==
  [s EXCEPT !.status = "loading",
            !.results = IF Len(@) > 0 /\ @[1].status = "loading" THEN Tail(@) ELSE @]

\* ------------------------------------------------- initializePlayer, engines
\* the engine handles the switch of initializePlayer creates
created(b, format, url) ==
  CASE format = "hls" -> {"hls"}
    [] format = "dash" -> {"dash"}
    [] format = "webrtc" -> IF Dialect(url) = "generic" THEN {"pc", "ws"} ELSE {"ws"}
    [] format = "flv" -> {"flv"}
    [] format = "smooth" -> {"shaka"}
    [] format = "rtmp" -> IF b = "part_002" THEN {"flv"} ELSE {}
    [] OTHER -> {}

\* initHLS: the engine it chooses. part_002 assigns the URL to the video
\* element in UC Browser before it asks for anything else
initHLS(b, rt) ==
  IF b = "part_002" /\ rt.ucBrowser THEN "native"
  ELSE IF rt.mse THEN "library"
  ELSE IF rt.canPlayType THEN "native"
  ELSE "error"

\* initDASH: dash.js is created whatever the browser offers
initDASH(b, rt) == "library"

\* the engine initializePlayer chooses for HLS and DASH
engineOf(b, format, rt) ==
  CASE format = "hls" -> initHLS(b, rt)
    [] format = "dash" -> initDASH(b, rt)
    [] OTHER -> "library"

\* the cases of initializePlayer that report Error before returning
syncError_SrtPlays(b, format, url) ==
  \/ format = "rtsp"
  \/ format = "rtmp" /\ b = "VideoPlayer.tsx"
  \/ format = "webrtc" /\ url = ""

syncError(b, format, url) ==
  \/ format \in {"rtsp", "srt"}
  \/ format = "rtmp" /\ b = "VideoPlayer.tsx"
  \/ format = "webrtc" /\ url = ""

initializePlayer(s, p) ==
  LET format == s.selectedFormat
      url == s.inputUrl
      engine == engineOf(s.build, format, s.runtime)
      failed == syncError(s.build, format, url) \/ engine = "error"
      h == IF format = "webrtc" /\ url = "" THEN {"pc"}
           ELSE IF engine = "library" THEN created(s.build, format, url)
           ELSE {}
      pl == [destroyPlayers(s.players[p]) EXCEPT
               !.status = IF failed THEN "error" ELSE "loading",
               !.handles = h,
               !.dialect = IF format = "webrtc" THEN Dialect(url) ELSE "none",
               !.src = (format = "mp4" /\ url # "") \/ engine = "native",
               !.native = @ \/ engine = "native",
               !.tempHls = IF s.build = "part_002" /\ format = "rtmp" /\ StartsWithRtmp(url)
                           THEN @ + 1 ELSE @,
               !.intervals = IF s.build = "part_002" /\ format = "hls" /\ engine = "library"
                             THEN @ + 1 ELSE @,
               !.sig = IF "ws" \in h THEN [NoSignaling EXCEPT !.chan = "connecting"]
                       ELSE NoSignaling]
      s1 == handleStatusChange([s EXCEPT !.players[p] = pl], "loading")
  IN IF failed THEN handleStatusChange(s1, "error") ELSE s1

\* the statuses the live engine of a player can report through props.onStatusChange
Reports(pl) ==
  (IF (pl.handles \ pl.destroyed) \cap {"hls", "dash", "shaka", "flv", "pc"} # {}
      \/ pl.leaked > 0
      \/ (pl.native /\ pl.src)
   THEN {"success"} ELSE {})
  \cup
  (IF pl.handles \ pl.destroyed # {} \/ pl.src THEN {"error"} ELSE {})

\* the types of a fatal Hls.Events.ERROR
HlsErrorTypes == {"networkError", "mediaError", "otherError"}

\* what the ERROR handler of initHLS does with a fatal error of a type
onHlsError_Recover(b, type) ==
  IF b = "part_002" THEN "recover" ELSE "error"

onHlsError(b, type) ==
  IF b = "part_002" /\ type \in {"networkError", "mediaError"} THEN "recover" ELSE "error"

\* the ERROR handler of initHLS on player p: startLoad / recoverMediaError, or
\* Error (part_002 destroys the instance first and keeps the reference)
hlsFatalError(s, p, type) ==
  IF onHlsError(s.build, type) = "recover"
  THEN s
  ELSE handleStatusChange(
         [s EXCEPT !.players[p].status = "error",
                   !.players[p].destroyed =
                      IF s.build = "part_002" THEN @ \cup {"hls"} ELSE @],
         "error")

\* engine instances live on the video element of a player
EngineCount(pl) ==
  Cardinality(pl.handles \cap {"hls", "dash", "shaka", "flv"})
  + (IF pl.handles \cap {"pc", "ws"} # {} THEN 1 ELSE 0)
  + pl.leaked

\* ------------------------------------------------------------ handleTestAll
\* the batch of one sweep iteration that starts the test of a format
sweepBatch(s, format, url) ==
  [s EXCEPT !.isTestActive = TRUE,
            !.status = "loading",
            !.results = SubSeq(<<[id |-> s.nextId, format |-> format,
                                  url |-> url, status |-> "loading"]>> \o @,
                               1, IF Len(@) + 1 > MaxResults THEN MaxResults ELSE Len(@) + 1),
            !.nextId = @ + 1]

\* the wait of one iteration: setInterval(checkStatus, 500), setTimeout(..., 10000)
sweepWait(s, k, i) ==
  [s EXCEPT !.sweeps[k] = [idx |-> i, pc |-> "wait"],
            !.timers = @ \o <<Timer("poll", PollDelay, k, "", "", FALSE),
                              Timer("timeout", SweepTimeout, k, "", "", FALSE)>>]

\* StreamTester.tsx: its four formats, and the sample URL of each (none for WebRTC)
testerFormats == SubSeq(formatOptions, 1, 4)

testerSample(format) == IF format = "webrtc" THEN "" ELSE SAMPLE_STREAMS[format]

\* StreamTester.tsx: the loop of handleTestAll from iteration i up to its next
\* await; every setter is a change of its own (there is no batch), and the
\* records carry no timestamp
RECURSIVE testerLoop(_, _, _)
testerLoop(s, k, i) ==
  IF i > Len(testerFormats)
  THEN React(s, [s EXCEPT !.isTestActive = FALSE, !.sweeps[k] = [idx |-> i, pc |-> "done"]])
  ELSE LET format == testerFormats[i]
           url == testerSample(format)
           s1 == React(s, [s EXCEPT !.selectedFormat = format])
           s2 == React(s1, [s1 EXCEPT !.inputUrl = url])
           s3 == React(s2, [s2 EXCEPT !.isTestActive = TRUE])
           s4 == [s3 EXCEPT
                    !.status = "loading",
                    !.results = SubSeq(<<[id |-> 0, format |-> format,
                                          url |-> url, status |-> "loading"]>> \o @,
                                       1, IF Len(@) + 1 > MaxResults
                                          THEN MaxResults ELSE Len(@) + 1)]
       IN IF url = ""
          THEN testerLoop(s2, k, i + 1)
          ELSE sweepWait(s4, k, i)

\* the loop of handleTestAll from iteration i up to its next await; the first
\* iteration runs inside the batch around the loop, the later ones do not
RECURSIVE sweepLoop(_, _, _, _)
sweepLoop(s, k, i, inBatch) ==
  IF s.tester = "StreamTester.tsx"
  THEN testerLoop(s, k, i)
  ELSE
  IF i > Len(formatOptions)
  THEN LET e == [s EXCEPT !.isTestActive = FALSE, !.sweeps[k] = [idx |-> i, pc |-> "done"]]
       IN IF inBatch THEN e ELSE React(s, e)
  ELSE LET format == formatOptions[i]
           url == getCurrentUrl(format, -1)
           a == [resetBackupIndex(s) EXCEPT !.selectedFormat = format, !.inputUrl = url]
           s1 == IF inBatch THEN a ELSE React(s, a)
           b == sweepBatch(s1, format, url)
           s2 == IF inBatch THEN b ELSE React(s1, b)
       IN IF url = ""
          THEN sweepLoop(s1, k, i + 1, inBatch)
          ELSE sweepWait(s2, k, i)

handleTestAll(s) ==
  LET s1 == resetPlayStatus(s)
      k == Len(s1.sweeps) + 1
      s2 == [s1 EXCEPT !.sweeps = Append(@, [idx |-> 0, pc |-> "wait"])]
  IN IF s.tester = "StreamTester.tsx"
     THEN testerLoop([s EXCEPT !.sweeps = Append(@, [idx |-> 0, pc |-> "wait"])],
                     Len(s.sweeps) + 1, 1)
     ELSE React(s1, sweepLoop(s2, k, 1, TRUE))

\* checkStatus, the callback of the 500 ms interval
checkStatus_NoWait(s, k) ==
  [s EXCEPT !.timers = Append(ClearTimers(@, "timeout", k),
                              Timer("settle", SettleDelay, k, "", "", FALSE)),
            !.leakedPolls = TRUE,
            !.sweeps[k].pc = "settle"]

checkStatus(s, k) ==
  IF s.status # "loading"
  THEN [s EXCEPT !.timers = Append(ClearTimers(@, "timeout", k),
                                   Timer("settle", SettleDelay, k, "", "", FALSE)),
                 !.leakedPolls = TRUE,
                 !.sweeps[k].pc = "settle"]
  ELSE [s EXCEPT !.timers = Append(@, Timer("poll", PollDelay, k, "", "", FALSE))]

\* the callback of the 10 s timeout
sweepTimeout(s, k) ==
  LET s1 == handleStatusChange([s EXCEPT !.timers = ClearTimers(@, "poll", k)], "error")
  IN [s1 EXCEPT !.timers = Append(@, Timer("settle", SettleDelay, k, "", "", FALSE)),
                !.sweeps[k].pc = "settle"]

\* tryHlsAlternative (part_002): the temporary Hls instance parsed a manifest
tempHlsParsed(pl) ==
  [pl EXCEPT !.tempHls = @ - 1,
             !.leaked = IF "hls" \in pl.handles THEN @ + 1 ELSE @,
             !.destroyed = @ \ {"hls"},
             !.handles = @ \cup {"hls"}]

\* ---------------------------------------------------------------- signaling
\* setStatus(st); props.onStatusChange(st) of player p
report(s, p, st) == handleStatusChange([s EXCEPT !.players[p].status = st], st)

\* webSocketConnection.send of player p
send(s, p, kind, sid, hid) ==
  [s EXCEPT !.players[p].sig.sent = Append(@, [kind |-> kind, sid |-> sid, hid |-> hid])]

\* a handler of player p reaches an await on a peer-connection operation
await(s, p, of, op, ok) ==
  [s EXCEPT !.players[p].sig.running = Append(@, [of |-> of, op |-> op, ok |-> ok])]

\* what a signaling server can send: a message type, and whether the field
\* the type requires is there (sdp, candidate, data.id, jsep)
Messages(dialect) ==
  CASE dialect = "generic" ->
         [type : {"answer", "ice"}, field : BOOLEAN]
           \cup [type : {"error", "other"}, field : {TRUE}]
    [] dialect = "echotest" ->
         [type : {"answer", "candidate"}, field : BOOLEAN]
           \cup [type : {"other"}, field : {TRUE}]
    [] dialect = "janus" ->
         [type : {"success", "event"}, field : BOOLEAN]
           \cup [type : {"other"}, field : {TRUE}]
    [] OTHER -> {}

\* webSocketConnection.onopen of the three dialects, up to the first await
onopen(s, p) ==
  LET d == s.players[p].dialect
      s1 == [s EXCEPT !.players[p].sig.chan = "open"]
  IN CASE d = "janus" -> send(s1, p, "create", 0, 0)
       [] d = "echotest" ->
            await([s1 EXCEPT !.players[p].handles = @ \cup {"pc"}],
                  p, "open", "createOffer", TRUE)
       [] OTHER -> await(s1, p, "open", "createOffer", TRUE)

\* webSocketConnection.onmessage of initWebRTC, up to its await
onmessageGeneric(s, p, m) ==
  LET pc == "pc" \in s.players[p].handles
  IN IF m.type = "answer" /\ m.field /\ pc
     THEN await(s, p, "answer", "setRemoteDescription", TRUE)
     ELSE IF m.type = "ice" /\ m.field /\ pc
     THEN await(s, p, "ice", "addIceCandidate", TRUE)
     ELSE IF m.type = "error"
     THEN report(s, p, "error")
     ELSE s

\* webSocketConnection.onmessage of connectToEchoTestServer: an answer without
\* sdp is handed to setRemoteDescription, which rejects it; RTCIceCandidate
\* throws on a missing candidate
onmessageEchoTest(s, p, m) ==
  LET pc == "pc" \in s.players[p].handles
  IN IF m.type = "answer" /\ pc
     THEN await(s, p, "answer", "setRemoteDescription", m.field)
     ELSE IF m.type = "candidate" /\ pc
     THEN IF m.field
          THEN await(s, p, "candidate", "addIceCandidate", TRUE)
          ELSE report(s, p, "error")
     ELSE s

\* webSocketConnection.onmessage of connectToJanusServer; id is data.id. The
\* second branch repeats the condition of the first one and adds to it.
onmessageJanus(s, p, m, id) ==
  LET pc == "pc" \in s.players[p].handles
      plugindata == FALSE
  IN IF m.type = "success" /\ m.field
     THEN send([s EXCEPT !.players[p].sig.sessionId = id], p, "attach", id, 0)
     ELSE IF m.type = "success" /\ m.field /\ ~plugindata
     THEN await([s EXCEPT !.players[p].sig.handleId = id,
                          !.players[p].handles = @ \cup {"pc"}],
                p, "attach", "createOffer", TRUE)
     ELSE IF m.type = "event" /\ m.field
     THEN IF pc THEN await(s, p, "event", "setRemoteDescription", TRUE) ELSE s
     ELSE s

onmessage(s, p, m) ==
  LET d == s.players[p].dialect
      s1 == [s EXCEPT !.players[p].sig.last = m,
                      !.players[p].sig.handled = @ + 1]
  IN CASE d = "janus" -> onmessageJanus(s1, p, m, s.players[p].sig.handled + 1)
       [] d = "echotest" -> onmessageEchoTest(s1, p, m)
       [] OTHER -> onmessageGeneric(s1, p, m)

\* the awaited operation of the i-th suspended handler of player p settles:
\* the handler goes on to its next await or to its end, or to its catch
resume(s, p, i, resolved) ==
  LET r == s.players[p].sig.running[i]
      sg == s.players[p].sig
      done == [s EXCEPT !.players[p].sig.running = RemoveAt(@, i)]
  IN IF ~resolved
     THEN report(done, p, "error")
     ELSE IF r.op = "createOffer"
     THEN [s EXCEPT !.players[p].sig.running[i].op = "setLocalDescription"]
     ELSE IF r.op = "setLocalDescription"
     THEN LET d1 == [done EXCEPT !.players[p].sig.local = TRUE]
          IN IF r.of = "attach"
             THEN send(d1, p, "message", sg.sessionId, sg.handleId)
             ELSE IF "ws" \in s.players[p].handles
                  THEN send(d1, p, "offer", 0, 0)
                  ELSE d1
     ELSE IF r.op = "setRemoteDescription"
     THEN [done EXCEPT !.players[p].sig.remote = TRUE]
     ELSE done

\* webSocketConnection.onerror
onerror(s, p) == report([s EXCEPT !.players[p].sig.chan = "failed"], p, "error")

\* webSocketConnection.onclose
onclose(s, p) ==
  LET s1 == [s EXCEPT !.players[p].sig.chan = "closed"]
  IN IF s.players[p].status # "success" THEN report(s1, p, "error") ELSE s1

IceStates == {"connected", "failed", "disconnected"}

\* the ICE connection states a peer connection can enter next: checks start
\* with the local description, a connection needs the remote one, and a
\* connection is lost before it fails
IceNext(sg) ==
  (IF sg.local /\ sg.remote /\ sg.ice \in {"new", "disconnected"}
   THEN {"connected"} ELSE {})
  \cup (IF sg.local /\ sg.ice \in {"new", "disconnected"} THEN {"failed"} ELSE {})
  \cup (IF sg.ice = "connected" THEN {"disconnected"} ELSE {})

\* peerConnection.oniceconnectionstatechange (connectToJanusServer sets none)
oniceconnectionstatechange(s, p, state) ==
  LET d == s.players[p].dialect
  IN CASE d = "janus" -> s
       [] d = "echotest" ->
            IF state = "connected" THEN report(s, p, "success")
            ELSE IF state = "failed" THEN report(s, p, "error")
            ELSE s
       [] OTHER ->
            IF state \in {"failed", "disconnected"}
            THEN report(s, p, "error")
            ELSE IF state = "connected" THEN report(s, p, "success")
            ELSE s

\* ------------------------------------------------------------------ actions
TypeOK ==
  /\ build \in Builds
  /\ tester \in Testers
  /\ runtime \in Runtimes
  /\ selectedFormat \in VideoFormat
  /\ isTestActive \in BOOLEAN
  /\ status \in Statuses
  /\ backupUrlIndex \in -1..3
  /\ Len(results) <= MaxResults

\* the tester at rest after the user has picked a format (a click on a format
\* card, 100 ms) and a source of the catalog (clicks on "Backup URL", 100 ms)
Init ==
  /\ build \in Builds
  /\ tester = "part_000"
  /\ runtime = Desktop
  /\ selectedFormat \in VideoFormat
  /\ backupUrlIndex \in -1..(getBackupCount(selectedFormat) - 1)
  /\ inputUrl = getCurrentUrl(selectedFormat, backupUrlIndex)
  /\ isTestActive = FALSE
  /\ status = "loading"
  /\ results = << >>
  /\ timers = << >>
  /\ players = << >>
  /\ sweeps = << >>
  /\ leakedPolls = FALSE
  /\ nextId = 1
  /\ clicks = 0
  /\ events = 0
  /\ ev = Ev("init", 0, "", FALSE)

Click == clicks < MaxClicks /\ clicks' = clicks + 1 /\ UNCHANGED events

\* a step that is neither a user action nor an engine report
Quiet == UNCHANGED <<clicks, events>>

\* a timer may fire when no earlier registered timer has a delay <= its own
CanFire(i) ==
  /\ i \in 1..Len(timers)
  /\ \A j \in 1..(i - 1) : timers[j].delay > timers[i].delay

Fired(i) == [S EXCEPT !.timers = RemoveAt(@, i)]

\* "Start Test" (disabled while a test is active)
StartTest ==
  /\ ~isTestActive
  /\ Click
  /\ Set(handleStartTest(S), Ev("start", 0, "", FALSE))

\* "Stop Test" (shown while a test is active)
StopTest ==
  /\ isTestActive
  /\ Click
  /\ Set(handleStopTest(S), Ev("stop", 0, "", FALSE))

\* the 50 ms timer of createEffect fires
InitTimer ==
  \E i \in 1..Len(timers) :
    /\ CanFire(i)
    /\ timers[i].kind = "init"
    /\ Quiet
    /\ LET p == timers[i].who
       IN Set(initializePlayer(Fired(i), p),
              Ev("initializePlayer", p,
                 IF syncError(build, selectedFormat, inputUrl)
                    \/ engineOf(build, selectedFormat, runtime) = "error"
                 THEN "error" ELSE "loading",
                 players[p].life # "mounted"))

\* an engine of player p reports a status
\* (a WebRTC success comes from the connection state, or from play() in
\* ontrack, which also starts the 2 s statsInterval)
EngineEvent ==
  \E p \in 1..Len(players) : \E st \in Reports(players[p]) :
    \E stats \in IF st = "success" /\ "pc" \in players[p].handles
                 THEN BOOLEAN ELSE {FALSE} :
      /\ events < MaxEvents
      /\ events' = events + 1
      /\ UNCHANGED clicks
      /\ Set(handleStatusChange(
               [S EXCEPT !.players[p].status = st,
                         !.players[p].intervals = IF stats THEN @ + 1 ELSE @], st),
             Ev("engine", p, st, players[p].life # "mounted"))

\* a fatal error of the Hls instance that initHLS created (the instance of
\* tryHlsAlternative, which sits beside an flv player, has no ERROR handler)
HlsFatalError ==
  \E p \in 1..Len(players) : \E type \in HlsErrorTypes :
    /\ "hls" \in players[p].handles \ players[p].destroyed
    /\ "flv" \notin players[p].handles
    /\ events < MaxEvents
    /\ events' = events + 1
    /\ UNCHANGED clicks
    /\ Set(hlsFatalError(S, p, type),
           Ev(type, p, onHlsError(build, type), players[p].life # "mounted"))

\* the playing event of a video element that plays its own src (mp4):
\* handlePlaying clears the buffering flag and reports nothing
Playing ==
  \E p \in 1..Len(players) :
    /\ players[p].src
    /\ events < MaxEvents
    /\ events' = events + 1
    /\ UNCHANGED clicks
    /\ Set(S, Ev("playing", p, players[p].status, players[p].life # "mounted"))

\* the close event of a socket that destroyPlayers closed
SocketClosed ==
  \E p \in 1..Len(players) :
    /\ players[p].closing > 0
    /\ Quiet
    /\ LET s0 == [S EXCEPT !.players[p].closing = @ - 1]
       IN IF players[p].status # "success"
          THEN Set(handleStatusChange([s0 EXCEPT !.players[p].status = "error"], "error"),
                   Ev("onclose", p, "error", TRUE))
          ELSE Set(s0, Ev("onclose", p, "", TRUE))

\* a click on a format card (ignored while a test is active)
FormatClick ==
  \E format \in VideoFormat :
    /\ ~isTestActive
    /\ Click
    /\ Set(React(S, debouncedFormatChange(S, format)), Ev("format", 0, "", FALSE))

FormatTimer ==
  \E i \in 1..Len(timers) :
    /\ CanFire(i)
    /\ timers[i].kind = "formatChange"
    /\ Quiet
    /\ Set(formatChangeTimeout(Fired(i), timers[i].fmt), Ev("formatChange", 0, "", FALSE))

\* typing into the URL field (disabled while a test is active)
TypeUrl ==
  \E value \in UserUrls :
    /\ ~isTestActive
    /\ Click
    /\ Set(handleUrlChange(S, value), Ev("type", 0, "", FALSE))

UrlTimer ==
  \E i \in 1..Len(timers) :
    /\ CanFire(i)
    /\ timers[i].kind = "urlChange"
    /\ Quiet
    /\ Set(urlChangeTimeout(Fired(i), timers[i].url, timers[i].flag),
           Ev("urlChange", 0, "", FALSE))

PrimaryUrlClick ==
  /\ Click
  /\ Set(primaryUrlClick(S), Ev("primaryUrl", 0, "", FALSE))

BackupUrlClick ==
  /\ getBackupCount(selectedFormat) # 0
  /\ Click
  /\ Set(backupUrlClick(S), Ev("backupUrl", 0, "", FALSE))

\* the two buttons of the error panel
TryPrimaryClick ==
  /\ isTestActive /\ status = "error" /\ getBackupCount(selectedFormat) > 0
  /\ Click
  /\ Set(tryPrimaryClick(S), Ev("tryPrimary", 0, "", FALSE))

TryNextClick ==
  /\ isTestActive /\ status = "error" /\ getBackupCount(selectedFormat) > 0
  /\ Click
  /\ Set(tryNextClick(S), Ev("tryNext", 0, "", FALSE))

\* the 150 ms timer of "Try Next Backup Source"
StartTimer ==
  \E i \in 1..Len(timers) :
    /\ CanFire(i)
    /\ timers[i].kind = "start"
    /\ Quiet
    /\ Set(handleStartTest(Fired(i)), Ev("startTimer", 0, "", FALSE))

\* "Test All Formats" (disabled while a test is active)
TestAllClick ==
  /\ ~isTestActive
  /\ Click
  /\ Set(handleTestAll(S), Ev("testAll", 0, "", FALSE))

ResetTimer ==
  \E i \in 1..Len(timers) :
    /\ CanFire(i)
    /\ timers[i].kind = "reset"
    /\ Quiet
    /\ Set(resetTimeout(Fired(i)), Ev("reset", 0, "", FALSE))

PollTimer ==
  \E i \in 1..Len(timers) :
    /\ CanFire(i)
    /\ timers[i].kind = "poll"
    /\ Quiet
    /\ Set(checkStatus(Fired(i), timers[i].who), Ev("poll", timers[i].who, "", FALSE))

TimeoutTimer ==
  \E i \in 1..Len(timers) :
    /\ CanFire(i)
    /\ timers[i].kind = "timeout"
    /\ Quiet
    /\ Set(sweepTimeout(Fired(i), timers[i].who),
           Ev("timeout", timers[i].who, "error", ~isTestActive))

SettleTimer ==
  \E i \in 1..Len(timers) :
    /\ CanFire(i)
    /\ timers[i].kind = "settle"
    /\ Quiet
    /\ LET k == timers[i].who
       IN Set(sweepLoop(Fired(i), k, sweeps[k].idx + 1, FALSE), Ev("sweepStep", k, "", FALSE))

\* part_002: the temporary Hls instance of tryHlsAlternative answers
TempHlsParsed ==
  \E p \in 1..Len(players) :
    /\ players[p].tempHls > 0
    /\ Quiet
    /\ Set([S EXCEPT !.players[p] = tempHlsParsed(@)], Ev("tempHlsParsed", p, "", FALSE))

TempHlsError ==
  \E p \in 1..Len(players) :
    /\ players[p].tempHls > 0
    /\ Quiet
    /\ Set([S EXCEPT !.players[p].tempHls = @ - 1], Ev("tempHlsError", p, "", FALSE))

\* connectToEchoTestServer: onopen creates the peer connection
EchoOpen ==
  \E p \in 1..Len(players) :
    /\ players[p].dialect = "echotest"
    /\ "ws" \in players[p].handles /\ "pc" \notin players[p].handles
    /\ Quiet
    /\ Set([S EXCEPT !.players[p].handles = @ \cup {"pc"}], Ev("onopen", p, "", FALSE))

\* the WebSocket of a signaling session opens
ChannelOpen ==
  \E p \in 1..Len(players) :
    /\ players[p].sig.chan = "connecting"
    /\ Quiet
    /\ Set(onopen(S, p), Ev("chanOpen", p, "", players[p].life # "mounted"))

\* the signaling server sends a message
ChannelMessage ==
  \E p \in 1..Len(players) : \E m \in Messages(players[p].dialect) :
    /\ players[p].sig.chan = "open"
    /\ players[p].sig.handled < MaxMessages
    /\ Quiet
    /\ Set(onmessage(S, p, m), Ev("chanMessage", p, "", players[p].life # "mounted"))

\* an awaited peer-connection operation resolves or rejects
OperationSettles ==
  \E p \in 1..Len(players) : \E i \in 1..Len(players[p].sig.running) :
    \E resolved \in IF players[p].sig.running[i].ok THEN BOOLEAN ELSE {FALSE} :
      /\ Quiet
      /\ Set(resume(S, p, i, resolved),
             Ev("settled", p, IF resolved THEN "" ELSE "error", players[p].life # "mounted"))

\* the WebSocket fails
ChannelError ==
  \E p \in 1..Len(players) :
    /\ players[p].sig.chan \in {"connecting", "open"}
    /\ players[p].sig.handled < MaxMessages
    /\ Quiet
    /\ Set(onerror([S EXCEPT !.players[p].sig.handled = @ + 1], p),
           Ev("chanError", p, "error", players[p].life # "mounted"))

\* the server closes the WebSocket, or the failed WebSocket closes
ChannelClose ==
  \E p \in 1..Len(players) :
    /\ players[p].sig.chan \in {"connecting", "open", "failed"}
    /\ players[p].sig.handled < MaxMessages \/ players[p].sig.chan = "failed"
    /\ Quiet
    /\ Set(onclose([S EXCEPT !.players[p].sig.handled = @ + 1], p),
           Ev("chanClose", p, players[p].status, players[p].life # "mounted"))

\* the ICE connection state of the peer connection changes
IceStateChange ==
  \E p \in 1..Len(players) : \E state \in IceNext(players[p].sig) :
    /\ "pc" \in players[p].handles
    /\ players[p].sig.handled < MaxMessages
    /\ Quiet
    /\ Set(oniceconnectionstatechange(
             [S EXCEPT !.players[p].sig.handled = @ + 1,
                       !.players[p].sig.ice = state], p, state),
           Ev("ice", p, state, players[p].life # "mounted"))

\* the interactive tester: every user action but "Test All Formats"
Next ==
  \/ StartTest
  \/ StopTest
  \/ FormatClick
  \/ FormatTimer
  \/ TypeUrl
  \/ UrlTimer
  \/ PrimaryUrlClick
  \/ BackupUrlClick
  \/ TryPrimaryClick
  \/ TryNextClick
  \/ StartTimer
  \/ InitTimer
  \/ EngineEvent
  \/ HlsFatalError
  \/ Playing
  \/ SocketClosed
  \/ TempHlsParsed
  \/ TempHlsError
  \/ EchoOpen

Spec == Init /\ [][Next]_vars

\* "Test All Formats", with format cards clicked before and after the sweep
NextSweep ==
  \/ TestAllClick
  \/ FormatClick
  \/ FormatTimer
  \/ ResetTimer
  \/ PollTimer
  \/ TimeoutTimer
  \/ SettleTimer
  \/ InitTimer
  \/ EngineEvent
  \/ Playing
  \/ SocketClosed
  \/ TempHlsParsed
  \/ TempHlsError

SpecSweep == Init /\ [][NextSweep]_vars

\* the tester at rest with the records of nine earlier tests in the log (their
\* players, long disposed, hold nothing and are left out)
EarlierTests == MaxResults - 1

InitLog ==
  /\ build \in Builds
  /\ tester = "part_000"
  /\ runtime = Desktop
  /\ selectedFormat \in VideoFormat
  /\ backupUrlIndex \in -1..(getBackupCount(selectedFormat) - 1)
  /\ inputUrl = getCurrentUrl(selectedFormat, backupUrlIndex)
  /\ isTestActive = FALSE
  /\ status = "success"
  /\ results = [i \in 1..EarlierTests |->
                  [id |-> EarlierTests + 1 - i, format |-> "hls",
                   url |-> SAMPLE_STREAMS["hls"], status |-> "success"]]
  /\ timers = << >>
  /\ players = << >>
  /\ sweeps = << >>
  /\ leakedPolls = FALSE
  /\ nextId = EarlierTests + 1
  /\ clicks = 0
  /\ events = 0
  /\ ev = Ev("init", 0, "", FALSE)

SpecLog == InitLog /\ [][Next]_vars

\* the tester at rest with WebRTC selected and one of its four sample URLs
InitSignal ==
  /\ build \in Builds
  /\ tester = "part_000"
  /\ runtime = Desktop
  /\ selectedFormat = "webrtc"
  /\ backupUrlIndex \in -1..(getBackupCount(selectedFormat) - 1)
  /\ inputUrl = getCurrentUrl(selectedFormat, backupUrlIndex)
  /\ isTestActive = FALSE
  /\ status = "loading"
  /\ results = << >>
  /\ timers = << >>
  /\ players = << >>
  /\ sweeps = << >>
  /\ leakedPolls = FALSE
  /\ nextId = 1
  /\ clicks = 0
  /\ events = 0
  /\ ev = Ev("init", 0, "", FALSE)

\* one WebRTC test and its signaling session
NextSignal ==
  \/ StartTest
  \/ InitTimer
  \/ ChannelOpen
  \/ ChannelMessage
  \/ OperationSettles
  \/ ChannelError
  \/ ChannelClose
  \/ IceStateChange

SpecSignal == InitSignal /\ [][NextSignal]_vars

\* ------------------------------------------------------------------- claims

\* the steps in which a player or a sweep calls onStatusChange
CallbackKinds == {"engine", "onclose", "initializePlayer", "timeout"}

\* C1: at any time at most one engine instance (an HLS, DASH, Shaka or FLV
\* player, or a WebRTC peer connection with its socket) is live on a video
\* element
C1_OneEnginePerElement ==
  \A p \in 1..Len(players) : EngineCount(players[p]) <= 1

\* C2: a callback of a session that has ended or been superseded (an engine
\* report of a disposed player, the close event of a socket that teardown
\* closed, the 50 ms timer of a disposed player) changes neither status, the
\* result log, backupUrlIndex nor inputUrl, and starts no test
C2_StaleCallbacksIgnored ==
  [][(ev'.kind \in CallbackKinds /\ ev'.stale)
       => /\ status' = status
          /\ results' = results
          /\ backupUrlIndex' = backupUrlIndex
          /\ inputUrl' = inputUrl
          /\ isTestActive' = isTestActive
          /\ nextId' = nextId]_vars

\* C3: once "Stop Test" has disposed a player, no engine is live on it and
\* none is created on it, whatever was pending when the user stopped
C3_StopIsImmediate ==
  \A p \in 1..Len(players) :
    players[p].life = "stopped" => EngineCount(players[p]) = 0

\* C4: engines are created on a video element only by a run of
\* initializePlayer, and such a run creates its engine only after its teardown
\* has released everything the element held: no step outside a run creates an
\* engine, and a run leaves no engine of an earlier run live
C4_TeardownPrecedesInitialize ==
  [][\A p \in 1..Len(players) :
       IF ev'.kind = "initializePlayer" /\ ev'.who = p
       THEN /\ EngineCount(destroyPlayers(players[p])) = 0
            /\ EngineCount(players'[p]) <= 1
       ELSE EngineCount(players'[p]) <= EngineCount(players[p])]_vars

\* C5: an Error reported by the engine of the running test while the primary
\* source is selected and the format has backups sets backupUrlIndex to 0,
\* inputUrl to the first backup, and starts the test again
C5_FallbackOnError ==
  [][(/\ ev'.kind \in CallbackKinds /\ ev'.st = "error" /\ ~ev'.stale
      /\ backupUrlIndex = -1
      /\ getBackupCount(selectedFormat) > 0)
       => /\ backupUrlIndex' = 0
          /\ inputUrl' = SAMPLE_BACKUPS[selectedFormat][1]
          /\ nextId' = nextId + 1
          /\ isTestActive']_vars

\* C6: an Error that arrives while a backup is selected (backupUrlIndex >= 0)
\* changes neither backupUrlIndex nor inputUrl and starts no test
C6_OneAutomaticFallback ==
  [][(ev'.kind \in CallbackKinds /\ ev'.st = "error" /\ backupUrlIndex >= 0)
       => /\ backupUrlIndex' = backupUrlIndex
          /\ inputUrl' = inputUrl
          /\ isTestActive' = isTestActive
          /\ nextId' = nextId]_vars

\* an Error has arrived with a backup selected and no test active, the case
\* in which only the index guard keeps the fallback from running again
C6_Witness ==
  /\ ev.kind \in CallbackKinds /\ ev.st = "error"
  /\ ev.idx >= 0
  /\ ~isTestActive
  /\ status = "error"

\* C7: every step that changes selectedFormat (the debounced format change
\* taking effect, a step of the sweep) leaves backupUrlIndex = -1
C7_FormatChangeResetsIndex ==
  [][selectedFormat' # selectedFormat => backupUrlIndex' = -1]_vars

\* a sweep has moved from a format with a backup selected to the first format
C7_Witness ==
  /\ ev.kind = "testAll"
  /\ ev.idx >= 0 /\ ev.fmt # selectedFormat
  /\ backupUrlIndex = -1

C9_NextBackupCycles ==
  [][/\ ev'.kind \in {"tryNext", "backupUrl"}
          => /\ backupUrlIndex' = (backupUrlIndex + 1) % getBackupCount(selectedFormat)
             /\ \E i \in 1..Len(timers') :
                  /\ timers'[i].kind = "urlChange"
                  /\ timers'[i].url = SAMPLE_BACKUPS[selectedFormat][backupUrlIndex' + 1]
     /\ ev'.kind = "urlChange"
          => \E i \in 1..Len(timers) :
               timers[i].kind = "urlChange" /\ inputUrl' = timers[i].url]_vars

\* with two backups "Try Next Backup Source" has wrapped from index 1 to 0
C9_Witness ==
  /\ ev.kind = "tryNext"
  /\ getBackupCount(selectedFormat) = 2
  /\ ev.idx = 1
  /\ backupUrlIndex = 0

\* C10: a step that starts a test puts exactly one Loading record of that
\* test at the head of the log, and while a test is active the record of the
\* test started last is in the log
C10_LoadingRecordStays ==
  [][/\ nextId' # nextId
          => /\ nextId' = nextId + 1
             /\ Len(results') >= 1
             /\ results'[1].id = nextId /\ results'[1].status = "loading"
             /\ Cardinality({i \in 1..Len(results') : results'[i].id = nextId}) = 1
     /\ isTestActive'
          => \E i \in 1..Len(results') : results'[i].id = nextId' - 1]_vars

\* the ids of the records of a log
RecordIds(rs) == {rs[i].id : i \in 1..Len(rs)}

\* the record of test id in a log that holds it
RecordOf(rs, id) == rs[CHOOSE i \in 1..Len(rs) : rs[i].id = id]

\* C11: the status of a record changes at most once, from Loading to Success
\* or Error, and never again
C11_RecordStatusFinal ==
  [][\A id \in RecordIds(results) \cap RecordIds(results') :
       RecordOf(results', id).status # RecordOf(results, id).status
         => /\ RecordOf(results, id).status = "loading"
            /\ RecordOf(results', id).status \in {"success", "error"}]_vars

\* the ids of the first n records of a log, in order
IdsOf(rs, n) == [i \in 1..(IF n < Len(rs) THEN n ELSE Len(rs)) |-> rs[i].id]

\* C12: the log never holds more than 10 records and is ordered newest first;
\* a test start puts its record at position 0, keeps the others in order and
\* drops the oldest when there would be 11
C12_LogBoundedNewestFirst ==
  [][/\ Len(results') <= MaxResults
     /\ \A i, j \in 1..Len(results') : i < j => results'[i].id > results'[j].id
     /\ nextId' # nextId
          => /\ Len(results') >= 1
             /\ results'[1].id = nextId
             /\ IdsOf(Tail(results'), MaxResults) = IdsOf(results, MaxResults - 1)]_vars

\* a test start has pushed the oldest of ten records out of the log
C12_Witness ==
  /\ Len(results) = MaxResults
  /\ results[1].id = nextId - 1
  /\ \A i \in 1..Len(results) : results[i].id # 1

\* C13: a record leaves the log only as the oldest of ten records, pushed out
\* by the record of a test that starts in the same step
C13_LogAppendOnly ==
  [][\A id \in RecordIds(results) \ RecordIds(results') :
       /\ nextId' # nextId
       /\ Len(results) = MaxResults
       /\ id = results[MaxResults].id]_vars

\* a run of initializePlayer on player p reports Error before it returns and
\* creates neither an engine nor a socket nor a probe
UnsupportedRun(p) ==
  /\ ev'.st = "error"
  /\ players'[p].status = "error"
  /\ players'[p].handles = {}
  /\ ~players'[p].src
  /\ players'[p].tempHls = players[p].tempHls

\* C14 as stated: for rtmp, rtsp and srt initializePlayer reports Error in
\* the step in which it reports Loading and creates nothing
C14_UnsupportedFormats ==
  [][(ev'.kind = "initializePlayer" /\ selectedFormat \in {"rtmp", "rtsp", "srt"})
       => UnsupportedRun(ev'.who)]_vars

\* C14 amended: so it is for rtsp and srt, and for rtmp in the revision that
\* has no HTTP-FLV path (VideoPlayer.tsx)
C14_UnsupportedFormatsAmended ==
  [][(/\ ev'.kind = "initializePlayer"
      /\ \/ selectedFormat \in {"rtsp", "srt"}
         \/ selectedFormat = "rtmp" /\ build = "VideoPlayer.tsx")
       => UnsupportedRun(ev'.who)]_vars

\* initializePlayer has run for a format without a playback path
C14_Witness ==
  /\ ev.kind = "initializePlayer"
  /\ ev.fmt \in {"rtmp", "rtsp", "srt"}
  /\ ev.st = "error"
  /\ players[ev.who].status = "error"
  /\ players[ev.who].handles = {}

PlayableFormats == {"hls", "dash", "mp4", "flv", "smooth", "webrtc"}

\* C15: when the engine or the element of the current session of a playable
\* format starts to play, the status of the session goes from Loading to Success
C15_LoadingThenSuccess ==
  [][(/\ \/ ev'.kind = "playing"
         \/ ev'.kind = "engine" /\ ev'.st = "success"
      /\ ~ev'.stale
      /\ selectedFormat \in PlayableFormats)
       => /\ players[ev'.who].status = "loading"
          /\ players'[ev'.who].status = "success"
          /\ status' = "success"]_vars

\* a timer of the given kind is pending for sweep k
Pending(ts, kind, k) == \E i \in 1..Len(ts) : ts[i].kind = kind /\ ts[i].who = k

\* C16: when the 10 s timeout of a sweep iteration fires while the status is
\* still Loading, the Loading record of the iteration's format becomes Error in
\* that step and the settle delay is started; when the settle delay has elapsed
\* the sweep makes the next format current
C16_SweepTimeout ==
  [][/\ (ev'.kind = "timeout" /\ status = "loading")
          => LET k == ev'.who
                 f == formatOptions[sweeps[k].idx]
             IN /\ \E i \in 1..Len(results) :
                     /\ results[i].format = f
                     /\ results[i].status = "loading"
                     /\ Len(results') >= i
                     /\ results'[i].id = results[i].id
                     /\ results'[i].status = "error"
                /\ sweeps'[k].pc = "settle"
                /\ Pending(timers', "settle", k)
     /\ ev'.kind = "sweepStep"
          => LET k == ev'.who
                 n == sweeps[k].idx + 1
             IN IF n <= Len(formatOptions)
                THEN sweeps'[k].idx = n /\ selectedFormat' = formatOptions[n]
                ELSE sweeps'[k].pc = "done"]_vars

C19_NothingLeftAfterTeardown ==
  [][\A p \in 1..Len(players) :
       (players[p].life = "mounted" /\ players'[p].life # "mounted")
         => /\ players'[p].handles = {}
            /\ players'[p].leaked = 0
            /\ players'[p].tempHls = 0
            /\ players'[p].intervals = 0]_vars

\* C20: no handle is ever released a second time, and a second destroyPlayers
\* right after a first one releases and closes nothing
C20_TeardownIdempotent ==
  \A p \in 1..Len(players) :
    LET once == destroyPlayers(players[p])
    IN /\ players[p].twice = {}
       /\ once.twice = {}
       /\ destroyPlayers(once) = once

\* "Test All Formats" with "Stop Test" pressed during the sweep
NextStop ==
  \/ TestAllClick
  \/ StopTest
  \/ ResetTimer
  \/ PollTimer
  \/ TimeoutTimer
  \/ SettleTimer
  \/ InitTimer
  \/ EngineEvent

SpecStop == Init /\ [][NextStop]_vars

\* C25: once "Stop Test" has disposed a player of the sweep, a step of the
\* sweep neither activates the test again, nor changes the selected format or
\* the url, nor adds a record
C25_StoppedSweepStartsNothing ==
  [][(ev'.kind = "sweepStep" /\ \E p \in 1..Len(players) : players[p].life = "stopped")
       => /\ isTestActive' => isTestActive
          /\ selectedFormat' = selectedFormat
          /\ inputUrl' = inputUrl
          /\ nextId' = nextId
          /\ results' = results]_vars

\* the backup URLs of a format
BackupUrls(format) ==
  {SAMPLE_BACKUPS[format][i] : i \in 1..Len(SAMPLE_BACKUPS[format])}

\* C26: the callback of a debounced URL change never sets inputUrl to a backup
\* URL of a format other than the selected one
C26_NoStaleBackupUrl ==
  [][ev'.kind = "urlChange"
       => \A format \in VideoFormat \ {selectedFormat} :
            inputUrl' \notin BackupUrls(format)]_vars

\* C30: whenever initializePlayer runs on the mounted player, the url it is
\* given is the url stored in the record of the test (the newest record)
C30_RecordUrlIsEngineUrl ==
  [][(ev'.kind = "initializePlayer" /\ ~ev'.stale)
       => /\ Len(results) >= 1
          /\ results[1].url = inputUrl]_vars

\* the connection attempt of a WebSocket ends: it opens, fails or is closed
ConnectEnds ==
  /\ \E p \in 1..Len(players) : players[p].sig.chan = "connecting"
  /\ ChannelOpen \/ ChannelError \/ ChannelClose
  /\ \A p \in 1..Len(players) : players'[p].sig.chan # "connecting"

\* the signaling session under the guarantees of the browser: timers fire,
\* a connection attempt ends and an awaited operation settles; what the server
\* sends, and whether it sends anything, is left open
SpecSignalLive ==
  /\ SpecSignal
  /\ WF_vars(InitTimer)
  /\ WF_vars(ConnectEnds)
  /\ WF_vars(OperationSettles)

\* C21: a signaling session that has started reaches Success or Error
C21_SessionTerminates ==
  (Len(players) >= 1 /\ players[1].sig.chan # "none")
    ~> (Len(players) >= 1 /\ players[1].status \in {"success", "error"})

\* C22: within one signaling session (no run of initializePlayer in between)
\* a player that has reported Success or Error reports no other status
C22_TerminalStatus ==
  [][\A p \in 1..Len(players) :
       (/\ players[p].sig.chan # "none"
        /\ players[p].status \in {"success", "error"}
        /\ ~(ev'.kind = "initializePlayer" /\ ev'.who = p))
         => players'[p].status = players[p].status]_vars

\* the kinds of the messages a player has sent, in order
SentKinds(pl) == [i \in 1..Len(pl.sig.sent) |-> pl.sig.sent[i].kind]

IsPrefix(a, b) == Len(a) <= Len(b) /\ a = SubSeq(b, 1, Len(a))

\* C23: a Janus session sends create when the channel opens, attach on the
\* success that answers create, and on the success that answers attach it
\* creates the peer connection and sends nothing but, later, the offer: what
\* it has sent is always a prefix of create, attach, offer
C23_JanusHandshake ==
  [][\A p \in 1..Len(players) :
       (players[p].dialect = "janus" /\ ev'.who = p)
         => /\ IsPrefix(SentKinds(players'[p]), <<"create", "attach", "message">>)
            /\ ev'.kind = "chanOpen" => SentKinds(players'[p]) = <<"create">>
            /\ (/\ ev'.kind = "chanMessage"
                /\ players'[p].sig.last = [type |-> "success", field |-> TRUE])
                 => IF SentKinds(players[p]) = <<"create">>
                    THEN SentKinds(players'[p]) = <<"create", "attach">>
                    ELSE /\ "pc" \in players'[p].handles
                         /\ players'[p].sig.sent = players[p].sig.sent]_vars

\* C24: at most one handler of a received message is in progress on a
\* session: none is suspended at an await when the next one starts
C24_OneHandlerAtATime ==
  \A p \in 1..Len(players) :
    Cardinality({i \in 1..Len(players[p].sig.running) :
                   players[p].sig.running[i].of # "open"}) <= 1

\* C27: in the Generic and the EchoTest dialect a message of an unknown type,
\* or without the field its type requires, ends in Error: the handler reports
\* Error at once, or hands the message to an operation that can only reject
C27_MalformedMessageFails ==
  [][\A p \in 1..Len(players) :
       (/\ ev'.kind = "chanMessage" /\ ev'.who = p
        /\ players[p].dialect \in {"generic", "echotest"}
        /\ players'[p].sig.last.type = "other" \/ ~players'[p].sig.last.field)
         => \/ players'[p].status = "error"
            \/ /\ Len(players'[p].sig.running) = Len(players[p].sig.running) + 1
               /\ ~players'[p].sig.running[Len(players'[p].sig.running)].ok]_vars

\* C28: a Janus session that has answered two success messages (create,
\* attach) reports Error when it receives an event without jsep
C28_JanusEventWithoutJsep ==
  [][\A p \in 1..Len(players) :
       (/\ ev'.kind = "chanMessage" /\ ev'.who = p
        /\ players[p].dialect = "janus"
        /\ Len(players[p].sig.sent) >= 3
        /\ players'[p].sig.last = [type |-> "event", field |-> FALSE])
         => players'[p].status = "error"]_vars

\* C29: in every dialect a channel error, a channel close before Success, and
\* the ICE connection states failed and disconnected make the session report Error
C29_FailureEventsReportError ==
  [][\A p \in 1..Len(players) :
       (/\ ev'.who = p
        /\ players[p].dialect \in {"generic", "janus", "echotest"}
        /\ \/ ev'.kind = "chanError"
           \/ ev'.kind = "chanClose" /\ players[p].status # "success"
           \/ ev'.kind = "ice" /\ ev'.st \in {"failed", "disconnected"})
         => players'[p].status = "error"]_vars

\* C31: in the step that ends the wait of a sweep iteration (a poll that sees
\* a status other than Loading, or the 10 s timeout) the 500 ms interval and
\* the 10 s timeout of that wait are both cancelled: neither is pending
\* afterwards and no interval is left scheduled
C31_WaitTimersCancelled ==
  [][\A k \in 1..Len(sweeps) :
       (sweeps[k].pc = "wait" /\ sweeps'[k].pc = "settle")
         => /\ ~Pending(timers', "poll", k)
            /\ ~Pending(timers', "timeout", k)
            /\ ~leakedPolls']_vars

\* the sweeps whose loop has not run to its end
RunningSweeps == {k \in 1..Len(sweeps) : sweeps[k].pc # "done"}

\* C32: at most one sweep loop runs at a time: while a sweep has not finished
\* no other sweep is running and "Test All Formats" is disabled, also after
\* "Stop Test" was pressed during that sweep
C32_OneSweepAtATime ==
  /\ Cardinality(RunningSweeps) <= 1
  /\ RunningSweeps # {} => isTestActive

\* C33: the 10 s timeout of a sweep iteration never replaces a terminal
\* status: when it fires while the status is no longer Loading (a Success
\* reported after the last poll) the status and the log are left as they are
C33_TimeoutKeepsTerminalStatus ==
  [][(ev'.kind = "timeout" /\ status # "loading")
       => /\ status' = status
          /\ results' = results]_vars

\* ------------------------------------------------ the tester of StreamTester.tsx
\* StreamTester.tsx at rest: HLS and its sample URL are the initial signals
InitTester ==
  /\ build \in Builds
  /\ tester = "StreamTester.tsx"
  /\ runtime = Desktop
  /\ selectedFormat = "hls"
  /\ backupUrlIndex = -1
  /\ inputUrl = testerSample("hls")
  /\ isTestActive = FALSE
  /\ status = "loading"
  /\ results = << >>
  /\ timers = << >>
  /\ players = << >>
  /\ sweeps = << >>
  /\ leakedPolls = FALSE
  /\ nextId = 1
  /\ clicks = 0
  /\ events = 0
  /\ ev = Ev("init", 0, "", FALSE)

\* its sweep: Test All Formats, Stop Test, the timers of the loop and the player
NextTester ==
  \/ TestAllClick
  \/ StopTest
  \/ PollTimer
  \/ TimeoutTimer
  \/ SettleTimer
  \/ InitTimer
  \/ EngineEvent
  \/ Playing

SpecTester == InitTester /\ [][NextTester]_vars

\* the pending timers of a kind, and the pending 50 ms timers of initializePlayer of player p
PendingOf(ts, kind) == {i \in 1..Len(ts) : ts[i].kind = kind}

InitTimers(ts, p) == Cardinality({i \in PendingOf(ts, "init") : ts[i].who = p})

\* C34: changes of the input coalesce: at most one debounced format change and
\* one debounced URL change are pending, a click that schedules one leaves the
\* one it scheduled (the last value), and a step that changes format and URL
\* together schedules at most one initializePlayer on a player, not one per change
C34_ChangesCoalesce ==
  [][/\ Cardinality(PendingOf(timers', "formatChange")) <= 1
     /\ Cardinality(PendingOf(timers', "urlChange")) <= 1
     /\ ev'.kind = "format" => PendingOf(timers', "formatChange") = {Len(timers')}
     /\ (selectedFormat' # selectedFormat /\ inputUrl' # inputUrl)
          => \A p \in 1..Len(players') :
               InitTimers(timers', p) <= InitTimers(timers, p) + 1]_vars

\* ------------------------------------------------- the browsers of the player
\* the tester at rest with HLS or DASH selected, in a browser of any capabilities
InitRuntime ==
  /\ build \in Builds
  /\ tester = "part_000"
  /\ runtime \in Runtimes
  /\ selectedFormat \in {"hls", "dash"}
  /\ backupUrlIndex \in -1..(getBackupCount(selectedFormat) - 1)
  /\ inputUrl = getCurrentUrl(selectedFormat, backupUrlIndex)
  /\ isTestActive = FALSE
  /\ status = "loading"
  /\ results = << >>
  /\ timers = << >>
  /\ players = << >>
  /\ sweeps = << >>
  /\ leakedPolls = FALSE
  /\ nextId = 1
  /\ clicks = 0
  /\ events = 0
  /\ ev = Ev("init", 0, "", FALSE)

\* one test of the selected format
NextRuntime ==
  \/ StartTest
  \/ StopTest
  \/ InitTimer
  \/ EngineEvent

SpecRuntime == InitRuntime /\ [][NextRuntime]_vars

\* C35: for HLS and DASH initializePlayer chooses by the capabilities of the
\* browser: the library engine when Media Source Extensions are there, else
\* the URL assigned to the video element when it plays the type natively,
\* else Error
C35_EngineByCapability ==
  [][\A p \in 1..Len(players) :
       (ev'.kind = "initializePlayer" /\ ev'.who = p /\ selectedFormat \in {"hls", "dash"})
         => IF runtime.mse
            THEN players'[p].handles = {selectedFormat} /\ ~players'[p].src
            ELSE IF runtime.canPlayType
            THEN players'[p].handles = {} /\ players'[p].src
            ELSE players'[p].handles = {} /\ players'[p].status = "error"]_vars

====
